---- MODULE Spec2Model ----
(***************************************************************************)
(* The transcript acquisition and cleaning pipeline of the YouTube         *)
(* transcript downloader (server/utils/youtube.ts, utils/constants.ts):    *)
(*   - extractVideoId and the recognition patterns YOUTUBE_URL_PATTERNS,   *)
(*   - getTranscript, the candidate loop over the scratch directory,       *)
(*   - cleanTranscript, the duplicate-removal engine.                      *)
(* Text is a sequence of one-character strings, so that the regular        *)
(* expressions, split, trim and join of the source are computed character  *)
(* by character.                                                           *)
(***************************************************************************)
EXTENDS Integers, Sequences, FiniteSets, TLC

VARIABLES
    url,      \* url[c]: the argument of getTranscript call c
    videoId,  \* videoId[c]: the id extractVideoId returned to call c
    plan,     \* plan[c][i]: what yt-dlp does for candidate i of call c
    pc,       \* pc[c]: position of call c in getTranscript
    idx,      \* idx[c]: index into configs of the candidate being tried
    result,   \* result[c]: how call c ended (return value or thrown error)
    log,      \* log[c]: the file operations and downloads call c has made
    fs,       \* the scratch directory os.tmpdir(): file name -> content
    arg,      \* the input of the pure function under study
    out,      \* the outputs computed from arg so far
    db,       \* the TranscriptSummary rows of the transcript on display
    tab,      \* the summary tab of the browser: its data and its timer
    rpc       \* rpc[m]: position and outcome of mutation m on the server

vars == <<url, videoId, plan, pc, idx, result, log, fs, arg, out, db, tab, rpc>>

callVars == <<url, videoId, plan, pc, idx, result, log, fs>>

summaryVars == <<db, tab, rpc>>

----------------------------------------------------------------------------
(* Characters and small helpers on text.                                   *)

Min(S) == CHOOSE x \in S : \A y \in S : x <= y

Max(S) == CHOOSE x \in S : \A y \in S : x >= y

\* Concatenation of a sequence of texts.
RECURSIVE Flatten(_)
Flatten(ss) == IF ss = <<>> THEN <<>> ELSE Head(ss) \o Flatten(Tail(ss))

\* lit occurs in s starting at position p.
IsPrefixAt(lit, s, p) ==
    /\ p >= 1
    /\ p + Len(lit) - 1 <= Len(s)
    /\ \A k \in 1..Len(lit) : s[p + k - 1] = lit[k]

----------------------------------------------------------------------------
(* utils/constants.ts: YOUTUBE_URL_PATTERNS, and extractVideoId.           *)

LitWatchV == <<"y","o","u","t","u","b","e",".","c","o","m","/","w","a","t","c","h","?","v","=">>

LitYoutuBe == <<"y","o","u","t","u",".","b","e","/">>

LitEmbed == <<"y","o","u","t","u","b","e",".","c","o","m","/","e","m","b","e","d","/">>

LitWatchQ == <<"y","o","u","t","u","b","e",".","c","o","m","/","w","a","t","c","h","?">>

LitVEq == <<"v","=">>

\* The characters the capture group [^&\n?#] excludes.
IdStop == {"&", "\n", "?", "#"}

\* The characters the regex dot does not match (line terminators).
LineTerminators == {"\n", "\r"}

\* First position at or after p whose character is outside the class
\* [^&\n?#] (Len(s)+1 when the run reaches the end): the greedy ([^&\n?#]+).
RECURSIVE IdRunEnd(_, _)
IdRunEnd(s, p) ==
    IF p <= Len(s) /\ s[p] \notin IdStop THEN IdRunEnd(s, p + 1) ELSE p

\* First position at or after p that the regex dot does not match: greedy .*
RECURSIVE DotRunEnd(_, _)
DotRunEnd(s, p) ==
    IF p <= Len(s) /\ s[p] \notin LineTerminators THEN DotRunEnd(s, p + 1) ELSE p

NoMatch == [matched |-> FALSE, group1 |-> <<>>]

\* /(?:youtube\.com\/watch\?v=|youtu\.be\/|youtube\.com\/embed\/)([^&\n?#]+)/
\* tried at start position p: first alternative, in order, that lets the
\* capture group take at least one character.
Pattern1At(s, p) ==
    LET alts == <<LitWatchV, LitYoutuBe, LitEmbed>>
        hits == {a \in 1..3 : /\ IsPrefixAt(alts[a], s, p)
                              /\ IdRunEnd(s, p + Len(alts[a])) > p + Len(alts[a])}
    IN  IF hits = {} THEN NoMatch
        ELSE LET q == p + Len(alts[Min(hits)])
             IN  [matched |-> TRUE, group1 |-> SubSeq(s, q, IdRunEnd(s, q) - 1)]

\* /youtube\.com\/watch\?.*v=([^&\n?#]+)/ tried at start position p: the
\* greedy .* gives back characters until "v=" plus one captured character
\* fit, so the last such "v=" on the line is taken.
Pattern2At(s, p) ==
    IF ~IsPrefixAt(LitWatchQ, s, p) THEN NoMatch
    ELSE LET q0 == p + Len(LitWatchQ)
             ks == {k \in q0..DotRunEnd(s, q0) :
                       /\ IsPrefixAt(LitVEq, s, k)
                       /\ IdRunEnd(s, k + 2) > k + 2}
         IN  IF ks = {} THEN NoMatch
             ELSE [matched |-> TRUE,
                   group1 |-> SubSeq(s, Max(ks) + 2, IdRunEnd(s, Max(ks) + 2) - 1)]

PatternAt(n, s, p) == IF n = 1 THEN Pattern1At(s, p) ELSE Pattern2At(s, p)

\* RegExp.prototype.exec for a non-global pattern: the leftmost start
\* position at which the pattern matches.
PatternExec(n, s) ==
    LET ps == {p \in 1..Len(s) : PatternAt(n, s, p).matched}
    IN  IF ps = {} THEN NoMatch ELSE PatternAt(n, s, Min(ps))

PatternTest(n, s) == PatternExec(n, s).matched

\* The two patterns, in list order.
YOUTUBE_URL_PATTERNS == <<1, 2>>

InvalidUrlMessage == "Invalid YouTube URL format"

\* extractVideoId: exec of the first pattern whose test succeeds; its first
\* group when non-empty, else the YouTubeError is thrown.
extractVideoId(u) ==
    LET found == {n \in 1..Len(YOUTUBE_URL_PATTERNS) :
                     PatternTest(YOUTUBE_URL_PATTERNS[n], u)}
        match == IF found = {} THEN NoMatch
                 ELSE PatternExec(YOUTUBE_URL_PATTERNS[Min(found)], u)
    IN  IF match.matched /\ match.group1 # <<>>
        THEN [threw |-> FALSE, value |-> match.group1, message |-> ""]
        ELSE [threw |-> TRUE, value |-> <<>>, message |-> InvalidUrlMessage]

----------------------------------------------------------------------------
(* getTranscript: the candidate loop.  yt-dlp is the environment: what it  *)
(* does for each candidate of a call (exit status, and the subtitle file   *)
(* it leaves in the scratch directory) is fixed per call in plan.          *)

LangEn == <<"e", "n">>

LangPl == <<"p", "l">>

\* The configurations with the manual track of each language listed first.
configsManualFirst ==
    << [lang |-> LangEn, auto |-> FALSE, name |-> "English (manual)"],
       [lang |-> LangEn, auto |-> TRUE,  name |-> "English (auto)"],
       [lang |-> LangPl, auto |-> FALSE, name |-> "Polish (manual)"],
       [lang |-> LangPl, auto |-> TRUE,  name |-> "Polish (auto)"] >>

\* The subtitle configurations, in the order the loop tries them.
configs ==
    << [lang |-> LangEn, auto |-> TRUE,  name |-> "English (auto)"],
       [lang |-> LangEn, auto |-> FALSE, name |-> "English (manual)"],
       [lang |-> LangPl, auto |-> TRUE,  name |-> "Polish (auto)"],
       [lang |-> LangPl, auto |-> FALSE, name |-> "Polish (manual)"] >>

\* `${videoId}.${config.lang}.vtt`, joined to the one scratch directory.
FileName(id, lang) == id \o <<".">> \o lang \o <<".", "v", "t", "t">>

existsSync(f, p) == p \in DOMAIN f

unlinkSync(f, p) == [q \in DOMAIN f \ {p} |-> f[q]]

\* The file yt-dlp writes.
WriteFile(f, p, content) ==
    [q \in DOMAIN f \cup {p} |-> IF q = p THEN content ELSE f[q]]

\* What a subtitle file holds: the track it was downloaded for, whether its
\* cues parse to text, to nothing, or whether reading it throws, and the call
\* whose download wrote it (0: a file left by an earlier request).
NoContent == [track |-> 0, kind |-> "none", by |-> -1]

StaleContent == [track |-> 0, kind |-> "text", by |-> 0]

\* What yt-dlp can do for one candidate.
Outcomes ==
    [exit : {"ok"}, artifact : {"none", "text", "empty", "unreadable"}]
        \cup [exit : {"fail"}, artifact : {"none", "text"}]

AllPlans == [1..Len(configs) -> Outcomes]

\* The outcomes drawn when two calls run side by side.
ConcurrentPlans ==
    [1..Len(configs) ->
        {[exit |-> "ok", artifact |-> "text"], [exit |-> "ok", artifact |-> "none"]}]

\* The URLs getTranscript is called with: one no pattern matches, and two
\* spellings of the same video.
UrlOther == <<"v","i","m","e","o",".","c","o","m","/","x">>

UrlShort == LitYoutuBe \o <<"x">>

UrlWatch == LitWatchV \o <<"x", "&", "t", "=", "1">>

CallUrls == {UrlOther, UrlShort, UrlWatch}

Pending == [kind |-> "pending", text |-> NoContent, language |-> <<>>, message |-> ""]

NoSubtitlesMessage == "No subtitles/transcript available for this video."

\* transcriptText.trim() is truthy.
ParsesToText(content) == content.kind = "text"

ScratchPath(c) == FileName(videoId[c], configs[idx[c]].lang)

\* One entry of log[c]: a file operation on p, or the yt-dlp command started
\* for the candidate (--sub-lang lang, --write-auto-subs or --write-subs).
Event(op, c, p, content) ==
    [op |-> op, cand |-> idx[c], lang |-> configs[idx[c]].lang,
     auto |-> configs[idx[c]].auto, file |-> p, content |-> content]

\* A loop that gives up one candidate early.
NextCandidateShort(c) ==
    IF idx[c] < Len(configs) - 1
    THEN /\ idx' = [idx EXCEPT ![c] = idx[c] + 1]
         /\ pc' = [pc EXCEPT ![c] = "loop"]
         /\ UNCHANGED result
    ELSE /\ pc' = [pc EXCEPT ![c] = "done"]
         /\ result' = [result EXCEPT ![c] =
                [kind |-> "threw", text |-> NoContent, language |-> <<>>,
                 message |-> NoSubtitlesMessage]]
         /\ UNCHANGED idx

\* Leaving the loop body for candidate idx[c]: the next candidate, or the
\* throw after the loop.
NextCandidate(c) ==
    IF idx[c] < Len(configs)
    THEN /\ idx' = [idx EXCEPT ![c] = idx[c] + 1]
         /\ pc' = [pc EXCEPT ![c] = "loop"]
         /\ UNCHANGED result
    ELSE /\ pc' = [pc EXCEPT ![c] = "done"]
         /\ result' = [result EXCEPT ![c] =
                [kind |-> "threw", text |-> NoContent, language |-> <<>>,
                 message |-> NoSubtitlesMessage]]
         /\ UNCHANGED idx

\* A catch block that ends the call with the candidate's error.
CatchRethrow(c) ==
    /\ pc' = [pc EXCEPT ![c] = "done"]
    /\ result' = [result EXCEPT ![c] =
            [kind |-> "threw", text |-> NoContent, language |-> <<>>,
             message |-> "Command failed: yt-dlp"]]
    /\ UNCHANGED idx

\* The outer catch: log the error and continue with the next candidate.
CatchContinue(c) == NextCandidate(c)

\* A success that is remembered while the loop goes on to the last candidate.
ReturnTranscriptLate(c, content) ==
    /\ result' = [result EXCEPT ![c] =
            [kind |-> "returned", text |-> content,
             language |-> configs[idx[c]].lang, message |-> ""]]
    /\ IF idx[c] < Len(configs)
       THEN /\ idx' = [idx EXCEPT ![c] = idx[c] + 1]
            /\ pc' = [pc EXCEPT ![c] = "loop"]
       ELSE /\ pc' = [pc EXCEPT ![c] = "done"]
            /\ UNCHANGED idx

\* return { text: cleanTranscript(parseVTTContent(vttContent)), language }:
\* text names the file content it was parsed and cleaned from.
ReturnTranscript(c, content) ==
    /\ pc' = [pc EXCEPT ![c] = "done"]
    /\ result' = [result EXCEPT ![c] =
            [kind |-> "returned", text |-> content,
             language |-> configs[idx[c]].lang, message |-> ""]]
    /\ UNCHANGED idx

\* A call that enters the loop whatever extractVideoId did.
BeginUnchecked(c, plans) ==
    /\ pc[c] = "idle"
    /\ \E u \in CallUrls, pl \in plans :
          /\ url' = [url EXCEPT ![c] = u]
          /\ plan' = [plan EXCEPT ![c] = pl]
          /\ videoId' = [videoId EXCEPT ![c] = extractVideoId(u).value]
          /\ pc' = [pc EXCEPT ![c] = "loop"]
          /\ UNCHANGED result
    /\ UNCHANGED <<idx, log, fs, arg, out, summaryVars>>

\* The call: extractVideoId(url) throws, or the loop is entered.
Begin(c, plans) ==
    /\ pc[c] = "idle"
    /\ \E u \in CallUrls, pl \in plans :
          /\ url' = [url EXCEPT ![c] = u]
          /\ plan' = [plan EXCEPT ![c] = pl]
          /\ LET r == extractVideoId(u)
             IN  IF r.threw
                 THEN /\ pc' = [pc EXCEPT ![c] = "done"]
                      /\ result' = [result EXCEPT ![c] =
                             [kind |-> "threw", text |-> NoContent,
                              language |-> <<>>, message |-> r.message]]
                      /\ UNCHANGED videoId
                 ELSE /\ pc' = [pc EXCEPT ![c] = "loop"]
                      /\ videoId' = [videoId EXCEPT ![c] = r.value]
                      /\ UNCHANGED result
    /\ UNCHANGED <<idx, log, fs, arg, out, summaryVars>>

\* A loop body that starts yt-dlp without looking at the scratch directory.
PrepareKeep(c) ==
    /\ pc[c] = "loop"
    /\ log' = [log EXCEPT ![c] = Append(@, Event("exec", c, ScratchPath(c), NoContent))]
    /\ pc' = [pc EXCEPT ![c] = "exec"]
    /\ UNCHANGED <<url, videoId, plan, idx, result, fs, arg, out, summaryVars>>

\* A loop body that clears the scratch path before the first candidate only.
PrepareFirstOnly(c) ==
    /\ pc[c] = "loop"
    /\ LET p == ScratchPath(c)
       IN  IF idx[c] = 1 /\ existsSync(fs, p)
           THEN /\ fs' = unlinkSync(fs, p)
                /\ log' = [log EXCEPT ![c] =
                       @ \o << Event("unlink", c, p, fs[p]),
                               Event("exec", c, p, NoContent) >>]
           ELSE /\ UNCHANGED fs
                /\ log' = [log EXCEPT ![c] = Append(@, Event("exec", c, p, NoContent))]
    /\ pc' = [pc EXCEPT ![c] = "exec"]
    /\ UNCHANGED <<url, videoId, plan, idx, result, arg, out, summaryVars>>

\* Top of the loop body up to the await: remove an existing file of the
\* candidate's name, then start yt-dlp.
Prepare(c) ==
    /\ pc[c] = "loop"
    /\ LET p == ScratchPath(c)
       IN  IF existsSync(fs, p)
           THEN /\ fs' = unlinkSync(fs, p)
                /\ log' = [log EXCEPT ![c] =
                       @ \o << Event("unlink", c, p, fs[p]),
                               Event("exec", c, p, NoContent) >>]
           ELSE /\ UNCHANGED fs
                /\ log' = [log EXCEPT ![c] = Append(@, Event("exec", c, p, NoContent))]
    /\ pc' = [pc EXCEPT ![c] = "exec"]
    /\ UNCHANGED <<url, videoId, plan, idx, result, arg, out, summaryVars>>

\* The yt-dlp process of the candidate runs to its end: it may leave
\* <id>.<lang>.vtt in the scratch directory, and exits with or without error.
Download(c) ==
    /\ pc[c] = "exec"
    /\ LET o == plan[c][idx[c]]
       IN  fs' = IF o.artifact = "none" THEN fs
                 ELSE WriteFile(fs, ScratchPath(c),
                                [track |-> idx[c], kind |-> o.artifact, by |-> c])
    /\ pc' = [pc EXCEPT ![c] = "resume"]
    /\ UNCHANGED <<url, videoId, plan, idx, result, log, arg, out, summaryVars>>

\* The continuation of the await, run in one piece: the rejected promise is
\* caught; otherwise the file, when there, is read, parsed and removed.
Resume(c) ==
    /\ pc[c] = "resume"
    /\ LET p == ScratchPath(c)
           o == plan[c][idx[c]]
       IN  IF o.exit = "fail"
           THEN /\ UNCHANGED <<fs, log>>
                /\ CatchContinue(c)
           ELSE IF ~existsSync(fs, p)
           THEN /\ UNCHANGED <<fs, log>>
                /\ NextCandidate(c)
           ELSE IF fs[p].kind = "unreadable"
           THEN /\ fs' = unlinkSync(fs, p)
                /\ log' = [log EXCEPT ![c] =
                       @ \o << Event("readError", c, p, fs[p]),
                               Event("unlink", c, p, fs[p]) >>]
                /\ NextCandidate(c)
           ELSE /\ fs' = unlinkSync(fs, p)
                /\ log' = [log EXCEPT ![c] =
                       @ \o << Event("read", c, p, fs[p]),
                               Event("unlink", c, p, fs[p]) >>]
                /\ IF ParsesToText(fs[p])
                   THEN ReturnTranscript(c, fs[p])
                   ELSE NextCandidate(c)
    /\ UNCHANGED <<url, videoId, plan, arg, out, summaryVars>>

\* The scratch files earlier requests may have left for the video.
StalePaths == {FileName(<<"x">>, l) : l \in {LangEn, LangPl}}

NoArg == [text |-> <<>>, id |-> <<>>, shape |-> "none"]

\* No summary tab is open and no summary mutation is in flight.
NoTab ==
    /\ db = {}
    /\ tab = [clicked |-> FALSE, timer |-> "idle", summary |-> {},
              query |-> "idle", answer |-> {}]
    /\ rpc = [m \in {} |-> "idle"]

InitCalls(C, stale) ==
    /\ url = [c \in C |-> <<>>]
    /\ videoId = [c \in C |-> <<>>]
    /\ plan = [c \in C |-> [i \in 1..Len(configs) |-> [exit |-> "ok", artifact |-> "none"]]]
    /\ pc = [c \in C |-> "idle"]
    /\ idx = [c \in C |-> 1]
    /\ result = [c \in C |-> Pending]
    /\ log = [c \in C |-> <<>>]
    /\ \E S \in stale : fs = [p \in S |-> StaleContent]

\* One getTranscript request.
Init ==
    /\ InitCalls({1}, SUBSET StalePaths)
    /\ NoTab
    /\ arg = NoArg
    /\ out = <<>>

Next ==
    \/ \E c \in DOMAIN pc : Begin(c, AllPlans)
    \/ \E c \in DOMAIN pc : Prepare(c)
    \/ \E c \in DOMAIN pc : Download(c)
    \/ \E c \in DOMAIN pc : Resume(c)

Spec == Init /\ [][Next]_vars

\* Two getTranscript requests running side by side on an empty scratch
\* directory.
ConcurrentCalls == {1, 2}

InitConcurrent ==
    /\ InitCalls(ConcurrentCalls, {{}})
    /\ NoTab
    /\ arg = NoArg
    /\ out = <<>>

NextConcurrent ==
    \/ \E c \in DOMAIN pc : Begin(c, ConcurrentPlans)
    \/ \E c \in DOMAIN pc : Prepare(c)
    \/ \E c \in DOMAIN pc : Download(c)
    \/ \E c \in DOMAIN pc : Resume(c)

SpecConcurrent == InitConcurrent /\ [][NextConcurrent]_vars

----------------------------------------------------------------------------
(* extractVideoId on its own: the argument is drawn from URLs built around *)
(* a known id, and from strings that hold no video URL.                    *)

MaxIdLen == 2

MaxParams == 1

IdChars == {"x", "7"}

\* The ids: the non-empty texts over IdChars of length up to MaxIdLen.
Ids == UNION {[1..n -> IdChars] : n \in 1..MaxIdLen}

\* Query parameters other than v.
ParamT == <<"t", "=", "1">>

ParamPv == <<"p", "v", "=", "2">>

ExtraParams == {ParamT, ParamPv}

ParamLists == UNION {[1..n -> ExtraParams] : n \in 0..MaxParams}

\* What precedes the host name.
UrlPrefixes == {<<>>, <<"m", ".">>}

\* The parameters, each followed by sep / preceded by sep.
RECURSIVE EachThen(_, _)
EachThen(ps, sep) ==
    IF ps = <<>> THEN <<>> ELSE Head(ps) \o sep \o EachThen(Tail(ps), sep)

RECURSIVE EachAfter(_, _)
EachAfter(ps, sep) ==
    IF ps = <<>> THEN <<>> ELSE sep \o Head(ps) \o EachAfter(Tail(ps), sep)

\* youtube.com/watch?<before&>v=ID<&after>
WatchUrl(pre, before, id, after) ==
    pre \o LitWatchQ \o EachThen(before, <<"&">>) \o LitVEq \o id
        \o EachAfter(after, <<"&">>)

\* youtu.be/ID<?p&p> and youtube.com/embed/ID<?p&p>
PathUrl(pre, lit, id, after) ==
    pre \o lit \o id
        \o (IF after = <<>> THEN <<>>
            ELSE <<"?">> \o Head(after) \o EachAfter(Tail(after), <<"&">>))

ShapedArgs ==
    {[text |-> WatchUrl(pre, b, id, a), id |-> id, shape |-> "watch"] :
        pre \in UrlPrefixes, b \in ParamLists, id \in Ids, a \in ParamLists}
    \cup {[text |-> PathUrl(pre, LitYoutuBe, id, a), id |-> id, shape |-> "youtu.be"] :
        pre \in UrlPrefixes, id \in Ids, a \in ParamLists}
    \cup {[text |-> PathUrl(pre, LitEmbed, id, a), id |-> id, shape |-> "embed"] :
        pre \in UrlPrefixes, id \in Ids, a \in ParamLists}

\* Strings with no watch?v=ID, youtu.be/ID or embed/ID in them: other sites,
\* the bare prefixes, and watch URLs whose query has no v parameter.
ShapelessTexts ==
    {<<>>, UrlOther, LitYoutuBe, LitEmbed, LitWatchV}
    \cup {pre \o LitWatchQ \o EachThen(b, <<"&">>) \o ParamT :
            pre \in UrlPrefixes, b \in ParamLists}
    \cup {pre \o LitWatchQ \o EachThen(b, <<"&">>) \o ParamPv :
            pre \in UrlPrefixes, b \in ParamLists}

ShapelessArgs == {[text |-> t, id |-> <<>>, shape |-> "none"] : t \in ShapelessTexts}

NoCalls == {}

InitExtract ==
    /\ InitCalls(NoCalls, {{}})
    /\ NoTab
    /\ arg \in ShapedArgs \cup ShapelessArgs
    /\ out = <<>>

\* await extractVideoId(url)
ExtractCall ==
    /\ out = <<>>
    /\ out' = <<extractVideoId(arg.text)>>
    /\ UNCHANGED <<callVars, arg, summaryVars>>

NextExtract == ExtractCall

SpecExtract == InitExtract /\ [][NextExtract]_vars

\* C9: for a URL of one of the shapes watch?v=ID, youtu.be/ID, embed/ID, with
\* or without further query parameters before or after v, extractVideoId
\* returns ID; for a string with none of the shapes it throws the invalid-URL
\* error.
C9_ExtractsExactlyId ==
    out # <<>>
    => IF arg.shape # "none"
       THEN ~out[1].threw /\ out[1].value = arg.id
       ELSE out[1].threw /\ out[1].message = InvalidUrlMessage

----------------------------------------------------------------------------
(* cleanTranscript, character by character.                                *)

\* The characters \s matches, among those of the model's texts.
Whitespace == {" ", "\n", "\t"}

\* [.!?]
SentenceEnd == {".", "!", "?"}

\* String.prototype.toLowerCase on one character.
UpperCase ==
    <<"A","B","C","D","E","F","G","H","I","J","K","L","M",
      "N","O","P","Q","R","S","T","U","V","W","X","Y","Z">>

LowerCase ==
    <<"a","b","c","d","e","f","g","h","i","j","k","l","m",
      "n","o","p","q","r","s","t","u","v","w","x","y","z">>

LowerChar(ch) ==
    IF \E k \in 1..Len(UpperCase) : UpperCase[k] = ch
    THEN LowerCase[CHOOSE k \in 1..Len(UpperCase) : UpperCase[k] = ch]
    ELSE ch

ToLowerCase(s) == [k \in 1..Len(s) |-> LowerChar(s[k])]

\* First position at or after p whose character is outside set D.
RECURSIVE RunEnd(_, _, _)
RunEnd(s, p, D) ==
    IF p <= Len(s) /\ s[p] \in D THEN RunEnd(s, p + 1, D) ELSE p

\* Last position at or before p whose character is outside set D (0 if none).
RECURSIVE RunStart(_, _, _)
RunStart(s, p, D) ==
    IF p >= 1 /\ s[p] \in D THEN RunStart(s, p - 1, D) ELSE p

\* String.prototype.trim
Trim(s) == SubSeq(s, RunEnd(s, 1, Whitespace), RunStart(s, Len(s), Whitespace))

\* replace(/D+/g, rep) for a character class D: every maximal run of
\* characters of D becomes rep.
RECURSIVE ReplaceRuns(_, _, _)
ReplaceRuns(s, D, r) ==
    IF s = <<>> THEN <<>>
    ELSE IF Head(s) \in D
         THEN r \o ReplaceRuns(SubSeq(s, RunEnd(s, 1, D), Len(s)), D, r)
         ELSE <<Head(s)>> \o ReplaceRuns(Tail(s), D, r)

\* First position at or after p whose character is in set D (Len(s)+1 if none).
RECURSIVE FindIn(_, _, _)
FindIn(s, p, D) ==
    IF p <= Len(s) /\ s[p] \notin D THEN FindIn(s, p + 1, D) ELSE p

\* split(/D+/) for a character class D: the pieces between maximal runs of
\* characters of D, empty pieces at either end included.
RECURSIVE SplitRuns(_, _)
SplitRuns(s, D) ==
    LET p == FindIn(s, 1, D)
    IN  IF p > Len(s) THEN <<s>>
        ELSE <<SubSeq(s, 1, p - 1)>>
                 \o SplitRuns(SubSeq(s, RunEnd(s, p, D), Len(s)), D)

\* Array.prototype.join
RECURSIVE Join(_, _)
Join(parts, sep) ==
    IF parts = <<>> THEN <<>>
    ELSE IF Len(parts) = 1 THEN parts[1]
    ELSE parts[1] \o sep \o Join(Tail(parts), sep)

\* filter(s => s.trim())
NonBlank(parts) == SelectSeq(parts, LAMBDA x : Trim(x) # <<>>)

\* The loop of step 2 with sentences compared as written, letter case
\* included.
RECURSIVE UniqueSentencesExact(_, _, _)
UniqueSentencesExact(sentences, seenSentences, uniqueSentences) ==
    IF sentences = <<>> THEN uniqueSentences
    ELSE LET normalized == Trim(Head(sentences))
         IN  IF normalized # <<>> /\ normalized \notin seenSentences
             THEN UniqueSentencesExact(Tail(sentences), seenSentences \cup {normalized},
                                       Append(uniqueSentences, Trim(Head(sentences))))
             ELSE UniqueSentencesExact(Tail(sentences), seenSentences, uniqueSentences)

\* Step 2: the loop over sentences with seenSentences and uniqueSentences.
RECURSIVE UniqueSentences(_, _, _)
UniqueSentences(sentences, seenSentences, uniqueSentences) ==
    IF sentences = <<>> THEN uniqueSentences
    ELSE LET normalized == ToLowerCase(Trim(Head(sentences)))
         IN  IF normalized # <<>> /\ normalized \notin seenSentences
             THEN UniqueSentences(Tail(sentences), seenSentences \cup {normalized},
                                  Append(uniqueSentences, Trim(Head(sentences))))
             ELSE UniqueSentences(Tail(sentences), seenSentences, uniqueSentences)

\* words.slice(i, i + n).join(" ").toLowerCase(), i counted from 1.
NGramAt(words, n, i) == ToLowerCase(Join(SubSeq(words, i, i + n - 1), <<" ">>))

\* The word positions toRemove holds after the second loop: the positions of
\* every n-gram that was counted more than once and whose value was already
\* in seen when the loop came to it.
\* The second loop marking every occurrence that has a later copy instead of
\* every occurrence that has an earlier one.
ToRemoveEarlier(words, n) ==
    LET starts == 1..(Len(words) - n + 1)
        seenAfter(i) == \E j \in starts : j > i /\ NGramAt(words, n, j) = NGramAt(words, n, i)
    IN  UNION {i..(i + n - 1) : i \in {k \in starts : seenAfter(k)}}

ToRemove(words, n) ==
    LET starts == 1..(Len(words) - n + 1)
        count(i) == Cardinality({j \in starts : NGramAt(words, n, j) = NGramAt(words, n, i)})
        seenBefore(i) == \E j \in starts : j < i /\ NGramAt(words, n, j) = NGramAt(words, n, i)
    IN  UNION {i..(i + n - 1) : i \in {k \in starts : count(k) > 1 /\ seenBefore(k)}}

\* words.filter((_, index) => !toRemove.has(index))
RECURSIVE DropPositions(_, _, _)
DropPositions(words, drop, k) ==
    IF k > Len(words) THEN <<>>
    ELSE (IF k \in drop THEN <<>> ELSE <<words[k]>>) \o DropPositions(words, drop, k + 1)

removeRepeatedNGrams(text, n) ==
    LET words == SplitRuns(text, Whitespace)
    IN  Join(DropPositions(words, ToRemove(words, n), 1), <<" ">>)

\* The loop of line 95 counting upwards: for (let n = 2; n <= 5; n++).
RECURSIVE NGramPassesIncreasing(_, _)
NGramPassesIncreasing(text, n) ==
    IF n < 2 THEN text ELSE removeRepeatedNGrams(NGramPassesIncreasing(text, n - 1), n)

\* The loop of line 95 ending one pass early: n >= 3.
RECURSIVE NGramPassesAbove2(_, _)
NGramPassesAbove2(text, n) ==
    IF n < 3 THEN text ELSE NGramPassesAbove2(removeRepeatedNGrams(text, n), n - 1)

\* for (let n = 5; n >= 2; n--) result = removeRepeatedNGrams(result, n)
RECURSIVE NGramPasses(_, _)
NGramPasses(text, n) ==
    IF n < 2 THEN text ELSE NGramPasses(removeRepeatedNGrams(text, n), n - 1)

\* replace(/\s*\.\s*\./g, ".")
RECURSIVE ReplaceDoublePeriods(_)
ReplaceDoublePeriods(s) ==
    IF s = <<>> THEN <<>>
    ELSE LET j == RunEnd(s, 1, Whitespace)
             k == RunEnd(s, j + 1, Whitespace)
         IN  IF j <= Len(s) /\ s[j] = "." /\ k <= Len(s) /\ s[k] = "."
             THEN <<".">> \o ReplaceDoublePeriods(SubSeq(s, k + 1, Len(s)))
             ELSE <<Head(s)>> \o ReplaceDoublePeriods(Tail(s))

\* replace(/\s*([.!?])\s*/g, "$1 ")
RECURSIVE FixPunctuationSpacing(_)
FixPunctuationSpacing(s) ==
    IF s = <<>> THEN <<>>
    ELSE LET j == RunEnd(s, 1, Whitespace)
         IN  IF j <= Len(s) /\ s[j] \in SentenceEnd
             THEN <<s[j], " ">>
                      \o FixPunctuationSpacing(SubSeq(s, RunEnd(s, j + 1, Whitespace), Len(s)))
             ELSE <<Head(s)>> \o FixPunctuationSpacing(Tail(s))

\* Step 1: whitespace runs to one space, line breaks to a space, trim.
Normalize(text) ==
    Trim(ReplaceRuns(ReplaceRuns(text, Whitespace, <<" ">>), {"\n"}, <<" ">>))

\* Step 2 and the join of step 3: the text handed to the n-gram passes.
SentencePass(cleaned) ==
    Join(UniqueSentences(NonBlank(SplitRuns(cleaned, SentenceEnd)), {}, <<>>),
         <<".", " ">>)

\* Step 4.
FinalCleanup(res) ==
    Trim(FixPunctuationSpacing(
            ReplaceRuns(ReplaceDoublePeriods(res), Whitespace, <<" ">>)))

\* Step 5 left out: the text is returned as step 4 leaves it.
EnsureEndingNever(res) == res

\* Step 5.
EnsureEnding(res) ==
    IF res # <<>> /\ res[Len(res)] \notin SentenceEnd
    THEN res \o <<".">>
    ELSE res

FirstN == 5

\* cleanTranscript without the guard of lines 32-34 and with a period added
\* to whatever step 4 leaves.
cleanTranscriptUnguarded(text) ==
    FinalCleanup(NGramPasses(SentencePass(Normalize(text)), FirstN)) \o <<".">>

cleanTranscript(text) ==
    IF text = <<>> \/ Trim(text) = <<>> THEN <<>>
    ELSE EnsureEnding(FinalCleanup(NGramPasses(SentencePass(Normalize(text)), FirstN)))

----------------------------------------------------------------------------
(* cleanTranscript on its own: the argument is a text of up to MaxWords    *)
(* words, each followed by a space or by a period and a space; or up to    *)
(* MaxPlainWords words of a larger vocabulary with single spaces between   *)
(* them; or up to MaxBlank whitespace characters.                          *)

MaxWords == 6

Words == {<<"a">>, <<"b">>}

Separators == {<<" ">>, <<".", " ">>}

WordItems == {w \o sp : w \in Words, sp \in Separators}

ItemTexts == {Flatten(items) : items \in UNION {[1..n -> WordItems] : n \in 0..MaxWords}}

MaxPlainWords == 7

PlainWords == {<<"a">>, <<"b">>, <<"c">>}

PlainTexts ==
    {Join(ws, <<" ">>) : ws \in UNION {[1..n -> PlainWords] : n \in 1..MaxPlainWords}}

MaxBlank == 2

BlankTexts == UNION {[1..n -> Whitespace] : n \in 0..MaxBlank}

CleanTexts == ItemTexts \cup PlainTexts \cup BlankTexts

InitClean ==
    /\ InitCalls(NoCalls, {{}})
    /\ NoTab
    /\ \E t \in CleanTexts : arg = [text |-> t, id |-> <<>>, shape |-> "none"]
    /\ out = <<>>

\* cleanTranscript(text)
CleanCall ==
    /\ out = <<>>
    /\ out' = <<cleanTranscript(arg.text)>>
    /\ UNCHANGED <<callVars, arg, summaryVars>>

\* cleanTranscript applied to its own output.
CleanAgain ==
    /\ Len(out) = 1
    /\ out' = Append(out, cleanTranscript(out[1]))
    /\ UNCHANGED <<callVars, arg, summaryVars>>

NextClean == CleanCall \/ CleanAgain

SpecClean == InitClean /\ [][NextClean]_vars

\* C10: cleaning the output of cleanTranscript again gives the same text.
C10_CleanIdempotent == Len(out) = 2 => out[2] = out[1]

\* The sentences of a text: the fragments between runs of '.', '!' and '?'
\* that hold more than whitespace, each trimmed and lower-cased.
SentencesOf(text) ==
    LET frags == NonBlank(SplitRuns(text, SentenceEnd))
    IN  [k \in 1..Len(frags) |-> ToLowerCase(Trim(frags[k]))]

\* C11: the output of cleanTranscript holds no two sentences that are equal
\* after trimming and lower-casing.
C11_NoDuplicateSentence ==
    Len(out) >= 1 =>
        LET ss == SentencesOf(out[1])
        IN  \A i, j \in 1..Len(ss) : i < j => ss[i] # ss[j]

\* The whitespace-delimited words of a text.
WordsOf(text) == SelectSeq(SplitRuns(text, Whitespace), LAMBDA w : w # <<>>)

\* Some n words of the text, 2 <= n <= 5, are immediately followed by a
\* copy of themselves, letter case aside.
HasAdjacentRepeat(text) ==
    LET ws == WordsOf(text)
    IN  \E n \in 2..5 : \E i \in 1..(Len(ws) - 2 * n + 1) :
            NGramAt(ws, n, i) = NGramAt(ws, n, i + n)

\* C12: in the output of cleanTranscript no run of n words, 2 <= n <= 5, is
\* immediately followed by a case-insensitively identical copy of itself.
C12_NoAdjacentRepeat == Len(out) >= 1 => ~HasAdjacentRepeat(out[1])

\* C13: a non-empty output of cleanTranscript ends with '.', '!' or '?'.
C13_EndsWithPunctuation ==
    \A k \in 1..Len(out) : out[k] # <<>> => out[k][Len(out[k])] \in SentenceEnd

\* A text without terminal punctuation was cleaned to a non-empty output.
C13_Witness ==
    /\ Len(out) >= 1
    /\ out[1] # <<>>
    /\ Trim(arg.text)[Len(Trim(arg.text))] \notin SentenceEnd

\* The text holds whitespace characters only (none at all included).
IsBlank(text) == \A k \in 1..Len(text) : text[k] \in Whitespace

\* C14: for an empty or whitespace-only input cleanTranscript returns the
\* empty string, with no punctuation added.
C14_BlankGivesEmpty == (Len(out) >= 1 /\ IsBlank(arg.text)) => out[1] = <<>>

\* A non-empty input of whitespace only was cleaned.
C14_Witness == Len(out) >= 1 /\ arg.text # <<>> /\ IsBlank(arg.text)

----------------------------------------------------------------------------
(* Steps 1 to 3 of cleanTranscript on their own: the argument is a text of *)
(* up to MaxSentWords words in either letter case, each followed by a      *)
(* space, by a period and a space, or by a question mark.                  *)

MaxSentWords == 3

SentWords == {<<"a">>, <<"A">>, <<"b">>}

SentSeparators == {<<" ">>, <<".", " ">>, <<"?">>}

SentItems == {w \o sp : w \in SentWords, sp \in SentSeparators}

SentTexts == {Flatten(items) : items \in UNION {[1..n -> SentItems] : n \in 0..MaxSentWords}}

InitSentences ==
    /\ InitCalls(NoCalls, {{}})
    /\ NoTab
    /\ \E t \in SentTexts : arg = [text |-> t, id |-> <<>>, shape |-> "none"]
    /\ out = <<>>

\* The value of result after line 56: what the n-gram passes are handed.
SentencePassCall ==
    /\ out = <<>>
    /\ out' = <<SentencePass(Normalize(arg.text))>>
    /\ UNCHANGED <<callVars, arg, summaryVars>>

NextSentences == SentencePassCall

SpecSentences == InitSentences /\ [][NextSentences]_vars

\* The fragments of a text between runs of '.', '!' and '?' that hold more
\* than whitespace.
Fragments(text) == NonBlank(SplitRuns(text, SentenceEnd))

\* The first occurrence of each distinct sentence of a text, sentences
\* compared after trimming and lower-casing, in the order and the letter case
\* of the text.
FirstOccurrences(text) ==
    LET frags == Fragments(text)
        key(i) == ToLowerCase(Trim(frags[i]))
        first(i) == \A j \in 1..(i - 1) : key(j) # key(i)
        firsts == SelectSeq([i \in 1..Len(frags) |-> i], first)
    IN  [k \in 1..Len(firsts) |-> Trim(frags[firsts[k]])]

\* C15: the text handed to the n-gram passes is the first occurrence of each
\* distinct sentence of the input, compared after trimming and lower-casing,
\* in original order and casing, joined with ". ".
C15_SentencePassKeepsFirst ==
    Len(out) = 1 => out[1] = Join(FirstOccurrences(arg.text), <<".", " ">>)

\* The sentence pass ran on a text in which a later sentence repeats an
\* earlier one in another letter case, with a different sentence after it.
C15_Witness ==
    /\ Len(out) = 1
    /\ LET frags == Fragments(arg.text)
       IN  \E i, j, k \in 1..Len(frags) :
               /\ i < j /\ j < k
               /\ Trim(frags[i]) # Trim(frags[j])
               /\ ToLowerCase(Trim(frags[i])) = ToLowerCase(Trim(frags[j]))
               /\ ToLowerCase(Trim(frags[k])) # ToLowerCase(Trim(frags[i]))

----------------------------------------------------------------------------
(* cleanTranscript on a repeated run: the argument is the first k words of *)
(* RunPool, 2 <= k <= 5, then the same k words again, as written or in     *)
(* upper case, then up to MaxTail words, single spaces between the words.  *)

RunPool == <<"a", "b", "c", "d", "e">>

LastN == 2

RunLengths == LastN..FirstN

TailWords == {<<"a">>, <<"f">>, <<"g">>}

MaxTail == 2

Tails == UNION {[1..n -> TailWords] : n \in 0..MaxTail}

\* String.prototype.toUpperCase on one character.
UpperChar(ch) ==
    IF \E k \in 1..Len(LowerCase) : LowerCase[k] = ch
    THEN UpperCase[CHOOSE k \in 1..Len(LowerCase) : LowerCase[k] = ch]
    ELSE ch

RunOf(k) == [i \in 1..k |-> <<RunPool[i]>>]

RunCopies(k) == {RunOf(k), [i \in 1..k |-> <<UpperChar(RunPool[i])>>]}

RunArgsOf(k) ==
    {[text |-> Join(RunOf(k) \o copy \o rest, <<" ">>), id |-> <<>>, shape |-> "run",
      run |-> RunOf(k), copy |-> copy, rest |-> rest] :
        copy \in RunCopies(k), rest \in Tails}

RunArgs == UNION {RunArgsOf(k) : k \in RunLengths}

InitRun ==
    /\ InitCalls(NoCalls, {{}})
    /\ NoTab
    /\ arg \in RunArgs
    /\ out = <<>>

NextRun == CleanCall

SpecRun == InitRun /\ [][NextRun]_vars

\* One copy of the run, the words after the second copy, and the period of
\* step 5.
OneCopyThenRest == Join(arg.run \o arg.rest, <<" ">>) \o <<".">>

PairwiseDifferent(ws) ==
    \A i, j \in 1..Len(ws) : i < j => ToLowerCase(ws[i]) # ToLowerCase(ws[j])

----------------------------------------------------------------------------
(* Properties of getTranscript.                                            *)

\* The priority order the candidates are to be tried in: (language, auto).
PriorityOrder ==
    << <<LangEn, TRUE>>, <<LangEn, FALSE>>, <<LangPl, TRUE>>, <<LangPl, FALSE>> >>

\* A candidate yields when yt-dlp exits without error and leaves a file whose
\* cues parse to non-empty text.
Yields(o) == o.exit = "ok" /\ o.artifact = "text"

\* The first candidate of the plan that yields, 0 when none does.
FirstYield(pl) ==
    LET ys == {i \in DOMAIN pl : Yields(pl[i])}
    IN  IF ys = {} THEN 0 ELSE Min(ys)

\* The yt-dlp commands the call has started, in order.
Execs(c) == SelectSeq(log[c], LAMBDA e : e.op = "exec")

\* The call got past extractVideoId.
InLoop(c) == pc[c] # "idle" /\ result[c].message # InvalidUrlMessage

NoSubtitles(c) ==
    result[c].kind = "threw" /\ result[c].message = NoSubtitlesMessage

\* C1: the downloads of a call are started one at a time, in the order
\* English-auto, English-manual, Polish-auto, Polish-manual, and after the
\* read of a file that parsed to non-empty text no download is started.
C1_CandidateOrder ==
    \A c \in DOMAIN pc :
        LET ex == Execs(c)
        IN  /\ Len(ex) <= Len(PriorityOrder)
            /\ \A k \in 1..Len(ex) : <<ex[k].lang, ex[k].auto>> = PriorityOrder[k]
            /\ pc[c] \in {"exec", "resume"} => Len(ex) = idx[c]
            /\ pc[c] = "loop" => Len(ex) = idx[c] - 1
            /\ \A j \in 1..Len(log[c]) :
                  (log[c][j].op = "read" /\ ParsesToText(log[c][j].content))
                      => \A k \in (j + 1)..Len(log[c]) : log[c][k].op # "exec"

C1_Witness ==
    /\ pc[1] = "done"
    /\ result[1].kind = "returned"
    /\ Len(Execs(1)) = 3
    /\ Yields(plan[1][4])

BothYield(pl, lang) ==
    \A i \in DOMAIN pl : PriorityOrder[i][1] = lang => Yields(pl[i])

\* C2 as stated: when both tracks of a language would yield, a transcript
\* returned in that language comes from the manual track.
C2_ManualPreferred ==
    \A c \in DOMAIN pc : \A lang \in {LangEn, LangPl} :
        (pc[c] = "done" /\ BothYield(plan[c], lang)
            /\ result[c].kind = "returned" /\ result[c].language = lang)
        => ~PriorityOrder[result[c].text.track][2]

\* C2 amended: when both tracks of a language would yield, the call returns a
\* transcript, and a transcript returned in that language comes from the
\* automatic track, which is tried first.
C2_AutoPreferred ==
    \A c \in DOMAIN pc : \A lang \in {LangEn, LangPl} :
        (pc[c] = "done" /\ InLoop(c) /\ BothYield(plan[c], lang))
        => /\ result[c].kind = "returned"
           /\ result[c].language = lang => PriorityOrder[result[c].text.track][2]

C2_Witness ==
    /\ pc[1] = "done"
    /\ BothYield(plan[1], LangPl)
    /\ result[1].kind = "returned"
    /\ result[1].language = LangPl

\* C3: a transcript that is returned has the language of the first candidate
\* in priority order that yields, and its text is parsed from the file that
\* this candidate's download wrote for this call.
C3_FirstYieldingCandidate ==
    \A c \in DOMAIN pc :
        (pc[c] = "done" /\ result[c].kind = "returned")
        => LET f == FirstYield(plan[c])
           IN  /\ f # 0
               /\ result[c].language = PriorityOrder[f][1]
               /\ result[c].text = [track |-> f, kind |-> "text", by |-> c]

C3_Witness ==
    /\ pc[1] = "done"
    /\ ~Yields(plan[1][1])
    /\ plan[1][2] = [exit |-> "ok", artifact |-> "none"]
    /\ FirstYield(plan[1]) = 3
    /\ result[1].language = LangPl
    /\ \E j \in 1..Len(log[1]) : log[1][j].op = "unlink" /\ log[1][j].content.by = 0

\* C4: when a call has ended, no scratch file of a candidate it attempted is
\* left in the scratch directory.
C4_NoScratchLeft ==
    \A c \in DOMAIN pc :
        pc[c] = "done"
        => \A k \in 1..Len(Execs(c)) : ~existsSync(fs, Execs(c)[k].file)

\* What the call returns when nothing else touches the scratch directory.
AloneResult(c) ==
    LET f == FirstYield(plan[c])
    IN  IF extractVideoId(url[c]).threw
        THEN [kind |-> "threw", text |-> NoContent, language |-> <<>>,
              message |-> InvalidUrlMessage]
        ELSE IF f = 0
        THEN [kind |-> "threw", text |-> NoContent, language |-> <<>>,
              message |-> NoSubtitlesMessage]
        ELSE [kind |-> "returned", text |-> [track |-> f, kind |-> "text", by |-> c],
              language |-> PriorityOrder[f][1], message |-> ""]

\* C5: of two calls for the same video, neither removes or reads a file the
\* other's download wrote, and each ends as it would have ended alone.
C5_NoInterference ==
    \A c \in DOMAIN pc : \A d \in DOMAIN pc \ {c} :
        (videoId[c] # <<>> /\ videoId[c] = videoId[d])
        => /\ \A j \in 1..Len(log[c]) :
                 log[c][j].op \in {"unlink", "read", "readError"}
                     => log[c][j].content.by # d
           /\ pc[c] = "done" => result[c] = AloneResult(c)

\* C6: no download, missing-file or read failure of a candidate ends the call:
\* the only error a call that entered the loop ends with is "no subtitles",
\* and after a candidate before the last that did not yield, the download of
\* the next one is started.
C6_FailuresSwallowed ==
    \A c \in DOMAIN pc :
        InLoop(c)
        => /\ result[c].kind = "threw" => result[c].message = NoSubtitlesMessage
           /\ \A i \in 1..(Len(PriorityOrder) - 1) :
                 (~Yields(plan[c][i]) /\ Len(Execs(c)) >= i
                     /\ (idx[c] > i \/ pc[c] = "done"))
                 => /\ Len(Execs(c)) >= i + 1 \/ (pc[c] = "loop" /\ idx[c] = i + 1)
                    /\ pc[c] = "done" => Len(Execs(c)) >= i + 1

C6_Witness ==
    /\ pc[1] = "done"
    /\ plan[1][1] = [exit |-> "fail", artifact |-> "text"]
    /\ plan[1][2] = [exit |-> "ok", artifact |-> "unreadable"]
    /\ plan[1][3] = [exit |-> "ok", artifact |-> "none"]
    /\ plan[1][4] = [exit |-> "fail", artifact |-> "none"]
    /\ NoSubtitles(1)

\* C7: a call that entered the loop ends with "no subtitles" exactly when
\* none of the four candidates yielded, and then all four downloads were
\* started.
C7_NoSubtitlesIffNoneYields ==
    \A c \in DOMAIN pc :
        /\ (pc[c] = "done" /\ InLoop(c))
               => (NoSubtitles(c) <=> FirstYield(plan[c]) = 0)
        /\ NoSubtitles(c)
               => /\ pc[c] = "done"
                  /\ Len(Execs(c)) = Len(PriorityOrder)

C7_Witness ==
    /\ NoSubtitles(1)
    /\ plan[1][3] = [exit |-> "ok", artifact |-> "empty"]
    /\ plan[1][4] = [exit |-> "ok", artifact |-> "unreadable"]

\* The call URLs that match none of the recognition patterns.
UnmatchedCallUrls ==
    {u \in CallUrls : \A n \in 1..Len(YOUTUBE_URL_PATTERNS) :
                          ~PatternTest(YOUTUBE_URL_PATTERNS[n], u)}

\* C8: a call whose URL matches no pattern has ended with the invalid-URL
\* error as soon as it has begun, has started no download and has removed,
\* read and written no scratch file.
C8_InvalidUrlImmediate ==
    \A c \in DOMAIN pc :
        (pc[c] # "idle" /\ url[c] \in UnmatchedCallUrls)
        => /\ pc[c] = "done"
           /\ result[c].kind = "threw"
           /\ result[c].message = InvalidUrlMessage
           /\ log[c] = <<>>
           /\ \A p \in DOMAIN fs : fs[p].by # c

C8_Witness ==
    /\ pc[1] = "done"
    /\ url[1] = UrlOther
    /\ result[1].message = InvalidUrlMessage
    /\ DOMAIN fs = StalePaths

----------------------------------------------------------------------------
(* parseVTTContent, character by character.                                *)

\* split("\n"): the pieces between single occurrences of the character.
RECURSIVE SplitOn(_, _)
SplitOn(s, ch) ==
    LET p == FindIn(s, 1, {ch})
    IN  IF p > Len(s) THEN <<s>>
        ELSE <<SubSeq(s, 1, p - 1)>> \o SplitOn(SubSeq(s, p + 1, Len(s)), ch)

\* String.prototype.startsWith
StartsWith(s, lit) == IsPrefixAt(lit, s, 1)

\* String.prototype.includes
Includes(s, lit) == \E p \in 1..Len(s) : IsPrefixAt(lit, s, p)

LitWebVtt == <<"W", "E", "B", "V", "T", "T">>

LitNote == <<"N", "O", "T", "E">>

LitArrow == <<"-", "-", ">">>

Digits == {"0", "1", "2", "3", "4", "5", "6", "7", "8", "9"}

\* [\w\d-]
IdentifierChars ==
    {UpperCase[k] : k \in 1..Len(UpperCase)} \cup {LowerCase[k] : k \in 1..Len(LowerCase)}
        \cup Digits \cup {"_", "-"}

\* /^[\w\d-]+$/.test(line)
IsIdentifierLine(line) ==
    line # <<>> /\ \A k \in 1..Len(line) : line[k] \in IdentifierChars

\* replace(/<[^>]*>/g, ""): from each "<" that has a ">" after it, the text
\* up to the first such ">" is removed.
RECURSIVE StripTags(_)
StripTags(s) ==
    IF s = <<>> THEN <<>>
    ELSE LET q == FindIn(s, 2, {">"})
         IN  IF Head(s) = "<" /\ q <= Len(s)
             THEN StripTags(SubSeq(s, q + 1, Len(s)))
             ELSE <<Head(s)>> \o StripTags(Tail(s))

\* replace(/lit/g, r) for a literal text lit.
RECURSIVE ReplaceAll(_, _, _)
ReplaceAll(s, lit, r) ==
    IF s = <<>> THEN <<>>
    ELSE IF IsPrefixAt(lit, s, 1)
         THEN r \o ReplaceAll(SubSeq(s, Len(lit) + 1, Len(s)), lit, r)
         ELSE <<Head(s)>> \o ReplaceAll(Tail(s), lit, r)

\* The entities of lines 247-252 with their replacements, in the order of
\* the replace calls.
Entities ==
    << <<<<"&", "l", "t", ";">>, <<"<">>>>, <<<<"&", "g", "t", ";">>, <<">">>>>, <<<<"&", "a", "m", "p", ";">>, <<"&">>>>,
       <<<<"&", "q", "u", "o", "t", ";">>, <<"\"">>>>, <<<<"&", "#", "3", "9", ";">>, <<"'">>>>, <<<<"&", "n", "b", "s", "p", ";">>, <<" ">>>> >>

\* The replace calls of lines 247-252 from the k-th on.
RECURSIVE DecodeFrom(_, _)
DecodeFrom(s, k) ==
    IF k > Len(Entities) THEN s
    ELSE DecodeFrom(ReplaceAll(s, Entities[k][1], Entities[k][2]), k + 1)

DecodeEntities(s) == DecodeFrom(s, 1)

\* Lines 245-253 with the entities decoded first and the tags removed after.
CleanCueTextDecodeFirst(line) == Trim(StripTags(DecodeEntities(line)))

\* Lines 245-253: cleanText.
CleanCueText(line) == Trim(DecodeEntities(StripTags(line)))

\* The parser before the first line.
ParserStart == [inCueBlock |-> FALSE, textLines |-> <<>>]

\* One iteration of the loop of lines 223-264 on the raw line.
ParseLine(st, raw) ==
    LET line == Trim(raw)
        cleanText == CleanCueText(line)
        pushed == IF st.inCueBlock /\ line # <<>> /\ cleanText # <<>>
                  THEN [st EXCEPT !.textLines = Append(@, cleanText)]
                  ELSE st
    IN  IF StartsWith(line, LitWebVtt) \/ StartsWith(line, LitNote) \/ line = <<>>
        THEN st
        ELSE IF Includes(line, LitArrow)
        THEN [st EXCEPT !.inCueBlock = TRUE]
        ELSE IF ~st.inCueBlock /\ IsIdentifierLine(line)
        THEN st
        ELSE IF line = <<>>
        THEN [pushed EXCEPT !.inCueBlock = FALSE]
        ELSE pushed

\* The Set of line 271 with membership decided on the lower-cased sentence.
RECURSIVE SetInOrderFolded(_, _, _)
SetInOrderFolded(items, members, ordered) ==
    IF items = <<>> THEN ordered
    ELSE LET item == Trim(Head(items))
         IN  IF ToLowerCase(item) \in members
             THEN SetInOrderFolded(Tail(items), members, ordered)
             ELSE SetInOrderFolded(Tail(items), members \cup {ToLowerCase(item)},
                                   Append(ordered, item))

\* [...new Set(sentences.map(s => s.trim()))]: the trimmed sentences in
\* order of first insertion.
RECURSIVE SetInOrder(_, _, _)
SetInOrder(items, members, ordered) ==
    IF items = <<>> THEN ordered
    ELSE LET item == Trim(Head(items))
         IN  IF item \in members
             THEN SetInOrder(Tail(items), members, ordered)
             ELSE SetInOrder(Tail(items), members \cup {item}, Append(ordered, item))

\* Line 267: the joined cue text.
JoinedCueText(textLines) ==
    Trim(ReplaceRuns(Join(textLines, <<" ">>), Whitespace, <<" ">>))

\* Lines 267-273 with the surviving sentences joined by a space only.
ParseReturnValueSpaced(textLines) ==
    LET sentences == NonBlank(SplitRuns(JoinedCueText(textLines), SentenceEnd))
        uniqueSentences == SetInOrder(sentences, {}, <<>>)
    IN  Trim(Join(uniqueSentences, <<" ">>))
            \o (IF Len(uniqueSentences) > 0 THEN <<".">> ELSE <<>>)

\* Lines 267-273: the text returned for the collected textLines.
ParseReturnValue(textLines) ==
    LET joined == JoinedCueText(textLines)
        sentences == NonBlank(SplitRuns(joined, SentenceEnd))
        uniqueSentences == SetInOrder(sentences, {}, <<>>)
    IN  Trim(Join(uniqueSentences, <<".", " ">>))
            \o (IF Len(uniqueSentences) > 0 THEN <<".">> ELSE <<>>)

\* The parser state after the first k lines.
RECURSIVE ParseUpTo(_, _)
ParseUpTo(lines, k) ==
    IF k = 0 THEN ParserStart ELSE ParseLine(ParseUpTo(lines, k - 1), lines[k])

parseVTTContent(vttContent) ==
    LET lines == SplitOn(vttContent, "\n")
    IN  ParseReturnValue(ParseUpTo(lines, Len(lines)).textLines)

----------------------------------------------------------------------------
(* parseVTTContent on its own, one loop iteration at a time: the argument  *)
(* is a file of up to MaxLines lines, each one of VttLines. out holds one  *)
(* record for every line processed so far and, in the end, one for the     *)
(* return.                                                                 *)

MaxLines == 4

LineIndex == <<"1">>

LineTiming == <<"0", " ", "-", "-", ">", " ", "1">>

LineText == <<"h", "i">>

LineMarkup == <<"T", "o", "m", " ", "&", "a", "m", "p", ";", " ", "J", "e", "r", "r", "y", " ", "&", "l", "t", ";", "l", "a", "u", "g", "h", "s", "&", "g", "t", ";">>

VttLines == {LitWebVtt, <<>>, LineIndex, LineTiming, LineText, LineMarkup}

VttTexts ==
    {Join(ls, <<"\n">>) : ls \in UNION {[1..n -> VttLines] : n \in 1..MaxLines}}

InitParse ==
    /\ InitCalls(NoCalls, {{}})
    /\ NoTab
    /\ \E t \in VttTexts : arg = [text |-> t, id |-> <<>>, shape |-> "vtt"]
    /\ out = <<>>

\* const lines = vttContent.split("\n")
FileLines == SplitOn(arg.text, "\n")

\* The parser state the next iteration starts from.
ParserNow ==
    IF out = <<>> THEN ParserStart
    ELSE [inCueBlock |-> out[Len(out)].inCueBlock, textLines |-> out[Len(out)].textLines]

\* The loop body for line i = Len(out), counted from 0.
ParseStep ==
    /\ Len(out) < Len(FileLines)
    /\ LET raw == FileLines[Len(out) + 1]
           st == ParseLine(ParserNow, raw)
       IN  out' = Append(out, [line |-> Trim(raw), inCueBlock |-> st.inCueBlock,
                               textLines |-> st.textLines,
                               returned |-> FALSE, value |-> <<>>])
    /\ UNCHANGED <<callVars, arg, summaryVars>>

\* Lines 267-273, after the last line.
ParseReturn ==
    /\ Len(out) = Len(FileLines)
    /\ out' = Append(out, [line |-> <<>>, inCueBlock |-> ParserNow.inCueBlock,
                           textLines |-> ParserNow.textLines,
                           returned |-> TRUE,
                           value |-> ParseReturnValue(ParserNow.textLines)])
    /\ UNCHANGED <<callVars, arg, summaryVars>>

NextParse == ParseStep \/ ParseReturn

SpecParse == InitParse /\ [][NextParse]_vars

\* The records of out that stand for a processed line.
LineSteps == {k \in 1..Len(out) : ~out[k].returned}

\* The parser state the k-th iteration started from.
Before(k) ==
    IF k = 1 THEN ParserStart
    ELSE [inCueBlock |-> out[k - 1].inCueBlock, textLines |-> out[k - 1].textLines]

MarkupText == <<"T", "o", "m", " ", "&", " ", "J", "e", "r", "r", "y", " ", "<", "l", "a", "u", "g", "h", "s", ">">>

\* C17: tags are stripped before entities are decoded: inside a cue the line
\* "Tom &amp; Jerry &lt;laughs&gt;" contributes "Tom & Jerry <laughs>", the
\* angle brackets produced by decoding being kept, also in the returned
\* text.
C17_TagsBeforeEntities ==
    /\ \A k \in LineSteps :
           (out[k].line = LineMarkup /\ Before(k).inCueBlock) =>
               out[k].textLines = Append(Before(k).textLines, MarkupText)
    /\ \A k \in 1..Len(out) :
           (out[k].returned /\ out[k].textLines = <<MarkupText>>) =>
               out[k].value = MarkupText \o <<".">>

\* A file whose only cue text is the line with entities was parsed to the
\* end.
C17_Witness ==
    /\ out # <<>>
    /\ out[Len(out)].returned
    /\ out[Len(out)].textLines = <<MarkupText>>
    /\ \E k \in LineSteps : out[k].line = LineMarkup

\* C20: from a blank line until the next timestamp line the in-cue flag is
\* false, a bare identifier line there is skipped and no line there is
\* emitted as transcript text.
C20_BlankLineLeavesCue ==
    \A i, j \in LineSteps :
        (/\ i <= j
         /\ out[i].line = <<>>
         /\ \A k \in (i + 1)..j : ~Includes(out[k].line, LitArrow)) =>
            /\ ~out[j].inCueBlock
            /\ out[j].textLines = Before(j).textLines

----------------------------------------------------------------------------
(* The URL form: handleSubmit of TranscriptForm and, for a URL that was    *)
(* sent, extractVideoId on the server.                                     *)

LitHttp == <<"h", "t", "t", "p", ":", "/", "/">>

LitHttps == <<"h", "t", "t", "p", "s", ":", "/", "/">>

LitWww == <<"w", "w", "w", ".">>

\* The positions at which the text may go on after an optional group: p
\* itself and the position after each literal of the group found at p.
AfterOptional(s, p, lits) ==
    {p} \cup {p + Len(lit) : lit \in {l \in lits : IsPrefixAt(l, s, p)}}

\* The three alternatives of the third group of YOUTUBE_REGEX.
RegexHosts == {LitWatchV, LitEmbed, LitYoutuBe}

\* YOUTUBE_REGEX.test(s)
YoutubeRegexTest(s) ==
    \E p1 \in AfterOptional(s, 1, {LitHttp, LitHttps}) :
    \E p2 \in AfterOptional(s, p1, {LitWww}) :
    \E host \in RegexHosts :
        /\ IsPrefixAt(host, s, p2)
        /\ p2 + Len(host) <= Len(s)
        /\ s[p2 + Len(host)] \notin LineTerminators

\* The two messages of setError, written without diacritics.
EmptyUrlMessage == "Wprowadz URL YouTube"

BadUrlMessage == "Wprowadz prawidlowy URL YouTube"

\* handleSubmit: the error shown, or the mutation sent with the trimmed URL.
handleSubmit(typed) ==
    LET trimmedUrl == Trim(typed)
    IN  IF trimmedUrl = <<>>
        THEN [sent |-> FALSE, error |-> EmptyUrlMessage, youtubeUrl |-> <<>>]
        ELSE IF ~YoutubeRegexTest(trimmedUrl)
        THEN [sent |-> FALSE, error |-> BadUrlMessage, youtubeUrl |-> <<>>]
        ELSE [sent |-> TRUE, error |-> "", youtubeUrl |-> trimmedUrl]

\* The URL formats the README lists as supported, up to the id.
ReadmeFormats ==
    [www |-> LitHttps \o LitWww \o LitWatchV,
     short |-> LitHttps \o LitYoutuBe,
     embed |-> LitHttps \o LitEmbed,
     mobile |-> LitHttps \o <<"m", ".">> \o LitWatchV]

\* What the user may type around the URL.
Paddings == {<<>>, <<" ">>}

FormArgs ==
    {[text |-> before \o ReadmeFormats[f] \o id \o after, id |-> id, shape |-> f] :
        f \in DOMAIN ReadmeFormats, id \in Ids, before \in Paddings, after \in Paddings}
    \cup {[text |-> pad, id |-> <<>>, shape |-> "none"] : pad \in Paddings}

InitForm ==
    /\ InitCalls(NoCalls, {{}})
    /\ NoTab
    /\ arg \in FormArgs
    /\ out = <<>>

\* The user submits the form.
Submit ==
    /\ out = <<>>
    /\ out' = <<handleSubmit(arg.text)>>
    /\ UNCHANGED <<callVars, arg, summaryVars>>

\* The server, for a mutation that was sent: extractVideoId(input.youtubeUrl).
ServerExtract ==
    /\ Len(out) = 1
    /\ out[1].sent
    /\ out' = Append(out, extractVideoId(out[1].youtubeUrl))
    /\ UNCHANGED <<callVars, arg, summaryVars>>

NextForm == Submit \/ ServerExtract

SpecForm == InitForm /\ [][NextForm]_vars

\* C18: every URL format the README lists as supported passes the form's
\* validation, so that the fetch mutation is sent, and extractVideoId yields
\* its id.
C18_ReadmeFormatsAccepted ==
    arg.shape \in DOMAIN ReadmeFormats =>
        /\ Len(out) >= 1 => out[1].sent
        /\ Len(out) >= 2 => (~out[2].threw /\ out[2].value = arg.id)

----------------------------------------------------------------------------
(* Regenerating a summary: the Regenerate button of TranscriptTabs and the *)
(* deleteSummary and generateSummary mutations on the server. The two      *)
(* requests travel and are served independently.                           *)

\* The summary stored before the click and the one generateSummary creates.
OldRow == [createdAt |-> "before the click"]

NewRow == [createdAt |-> "after the click"]

Mutations == {"deleteSummary", "generateSummary"}

\* The summary rows the database may hold when the tab shows a summary: the
\* one on display, or none when it was deleted from elsewhere.
StoredAtClick == {{OldRow}, {}}

InitRegenerate ==
    /\ InitCalls(NoCalls, {{}})
    /\ arg = NoArg
    /\ out = <<>>
    /\ db \in StoredAtClick
    /\ tab = [clicked |-> FALSE, timer |-> "idle", summary |-> {OldRow},
              query |-> "idle", answer |-> {}]
    /\ rpc = [m \in Mutations |-> [pc |-> "idle", ret |-> {}, handled |-> FALSE]]

\* handleRegenerateSummary(summary): the button is rendered for a summary
\* only; deleteSummaryMutation.mutate and setTimeout(..., 500).
ClickRegenerate ==
    /\ ~tab.clicked
    /\ tab.summary # {}
    /\ tab' = [tab EXCEPT !.clicked = TRUE, !.timer = "set"]
    /\ rpc' = [rpc EXCEPT !["deleteSummary"].pc = "sent"]
    /\ UNCHANGED <<callVars, arg, out, db>>

\* The timeout callback: handleGenerateSummary() sends generateSummary.
TimerFires ==
    /\ tab.timer = "set"
    /\ tab' = [tab EXCEPT !.timer = "fired"]
    /\ rpc' = [rpc EXCEPT !["generateSummary"].pc = "sent"]
    /\ UNCHANGED <<callVars, arg, out, db>>

\* deleteSummary on the server: delete throws when there is no row.
DeleteSummary ==
    /\ rpc["deleteSummary"].pc = "sent"
    /\ IF db # {}
       THEN /\ db' = {}
            /\ rpc' = [rpc EXCEPT !["deleteSummary"].pc = "returned"]
       ELSE /\ UNCHANGED db
            /\ rpc' = [rpc EXCEPT !["deleteSummary"].pc = "failed"]
    /\ UNCHANGED <<callVars, arg, out, tab>>

\* generateSummary: await transcript.findUnique; the transcript on display
\* exists.
GenerateFindTranscript ==
    /\ rpc["generateSummary"].pc = "sent"
    /\ rpc' = [rpc EXCEPT !["generateSummary"].pc = "checking"]
    /\ UNCHANGED <<callVars, arg, out, db, tab>>

\* generateSummary: await transcriptSummary.findUnique and the return of an
\* existing summary.
GenerateCheck ==
    /\ rpc["generateSummary"].pc = "checking"
    /\ IF db # {}
       THEN rpc' = [rpc EXCEPT !["generateSummary"].pc = "returned",
                               !["generateSummary"].ret = db]
       ELSE rpc' = [rpc EXCEPT !["generateSummary"].pc = "generating"]
    /\ UNCHANGED <<callVars, arg, out, db, tab>>

\* await generateSummary(transcript.transcript, ...): Ollama answers.
OllamaAnswers ==
    /\ rpc["generateSummary"].pc = "generating"
    /\ rpc' = [rpc EXCEPT !["generateSummary"].pc = "saving"]
    /\ UNCHANGED <<callVars, arg, out, db, tab>>

\* await generateSummary(transcript.transcript, ...): Ollama is unreachable
\* or answers with an error; the catch rethrows.
OllamaFails ==
    /\ rpc["generateSummary"].pc = "generating"
    /\ rpc' = [rpc EXCEPT !["generateSummary"].pc = "failed"]
    /\ UNCHANGED <<callVars, arg, out, db, tab>>

\* transcriptSummary.create: transcriptId is unique.
GenerateSave ==
    /\ rpc["generateSummary"].pc = "saving"
    /\ IF db = {}
       THEN /\ db' = {NewRow}
            /\ rpc' = [rpc EXCEPT !["generateSummary"].pc = "returned",
                                  !["generateSummary"].ret = {NewRow}]
       ELSE /\ UNCHANGED db
            /\ rpc' = [rpc EXCEPT !["generateSummary"].pc = "failed"]
    /\ UNCHANGED <<callVars, arg, out, tab>>

\* onSuccess or onError of mutation m in the browser: success calls
\* refetchSummary(), which starts the getSummary query anew; an error only
\* shows a toast.
Settle(m) ==
    /\ rpc[m].pc \in {"returned", "failed"}
    /\ ~rpc[m].handled
    /\ rpc' = [rpc EXCEPT ![m].handled = TRUE]
    /\ tab' = [tab EXCEPT !.query = IF rpc[m].pc = "returned" THEN "sent" ELSE @]
    /\ UNCHANGED <<callVars, arg, out, db>>

\* getSummary on the server: transcriptSummary.findUnique.
GetSummary ==
    /\ tab.query = "sent"
    /\ tab' = [tab EXCEPT !.query = "answered", !.answer = db]
    /\ UNCHANGED <<callVars, arg, out, db, rpc>>

\* The answer of getSummary becomes the data of the tab.
ShowSummary ==
    /\ tab.query = "answered"
    /\ tab' = [tab EXCEPT !.query = "idle", !.summary = tab.answer]
    /\ UNCHANGED <<callVars, arg, out, db, rpc>>

NextRegenerate ==
    \/ ClickRegenerate
    \/ TimerFires
    \/ DeleteSummary
    \/ GenerateFindTranscript
    \/ GenerateCheck
    \/ OllamaAnswers
    \/ OllamaFails
    \/ GenerateSave
    \/ \E m \in Mutations : Settle(m)
    \/ GetSummary
    \/ ShowSummary

SpecRegenerate == InitRegenerate /\ [][NextRegenerate]_vars

\* Both mutations have ended and the browser has handled their outcome.
Settled ==
    /\ tab.clicked
    /\ tab.timer = "fired"
    /\ tab.query = "idle"
    /\ \A m \in Mutations : rpc[m].handled

\* C19: in every interleaving, once the click on Regenerate has run its
\* course (and generateSummary has not failed) the transcript has a stored
\* summary that was generated after the click, not the old one.
C19_RegenerationStoresNew ==
    (Settled /\ rpc["generateSummary"].pc = "returned") => db = {NewRow}

----------------------------------------------------------------------------
(* The n-gram passes on their own: the argument is a text of up to         *)
(* MaxPassWords words with single spaces between them; a single pass      *)
(* takes any n of the loop.                                                *)

MaxPassWords == 7

PassWords == {<<"a">>, <<"A">>, <<"b">>}

PassTexts ==
    {Join(ws, <<" ">>) : ws \in UNION {[1..k -> PassWords] : k \in 1..MaxPassWords}}

InitNGram ==
    /\ InitCalls(NoCalls, {{}})
    /\ NoTab
    /\ \E t \in PassTexts : arg = [text |-> t, id |-> <<>>, shape |-> "words"]
    /\ out = <<>>

\* removeRepeatedNGrams(text, n): the text returned and the word positions
\* toRemove held, counted from 1.
PassCall ==
    /\ out = <<>>
    /\ \E n \in RunLengths :
           out' = <<[op |-> "pass", n |-> n,
                     text |-> removeRepeatedNGrams(arg.text, n),
                     removed |-> ToRemove(SplitRuns(arg.text, Whitespace), n)]>>
    /\ UNCHANGED <<callVars, arg, summaryVars>>

\* The loop of lines 95-97 on the text.
StageCall ==
    /\ out = <<>>
    /\ out' = <<[op |-> "stage", n |-> FirstN,
                 text |-> NGramPasses(arg.text, FirstN), removed |-> {}]>>
    /\ UNCHANGED <<callVars, arg, summaryVars>>

NextNGram == PassCall \/ StageCall

SpecNGram == InitNGram /\ [][NextNGram]_vars

\* The words of the argument and of the text returned.
WordsIn == SplitRuns(arg.text, Whitespace)

WordsOut == SplitRuns(out[1].text, Whitespace)

\* The start positions of the n-grams of the argument, and those at which an
\* n-gram value occurs for the first time although it occurs again later.
Starts == 1..(Len(WordsIn) - out[1].n + 1)

IsFirstOfRepeated(i) ==
    /\ \A j \in Starts : j < i => NGramAt(WordsIn, out[1].n, j) # NGramAt(WordsIn, out[1].n, i)
    /\ \E j \in Starts : j > i /\ NGramAt(WordsIn, out[1].n, j) = NGramAt(WordsIn, out[1].n, i)

IsLaterOccurrence(i) ==
    \E j \in Starts : j < i /\ NGramAt(WordsIn, out[1].n, j) = NGramAt(WordsIn, out[1].n, i)

\* C21: in a single pass no word position of the first occurrence of a
\* repeated n-gram is deleted; only positions of its second and later
\* occurrences are.
C21_FirstOccurrenceUntouched ==
    (Len(out) = 1 /\ out[1].op = "pass") =>
        /\ \A i \in {k \in Starts : IsFirstOfRepeated(k)} :
               out[1].removed \cap (i..(i + out[1].n - 1)) = {}
        /\ \A p \in out[1].removed :
               \E i \in {k \in Starts : IsLaterOccurrence(k)} : p \in i..(i + out[1].n - 1)

\* The passes for n = 5, 4, 3, 2, each on the text the one before returned,
\* and the same passes in increasing order.
Passes5432(text) ==
    removeRepeatedNGrams(removeRepeatedNGrams(removeRepeatedNGrams(
        removeRepeatedNGrams(text, 5), 4), 3), 2)

Passes2345(text) ==
    removeRepeatedNGrams(removeRepeatedNGrams(removeRepeatedNGrams(
        removeRepeatedNGrams(text, 2), 3), 4), 5)

\* C22: the n-gram stage is one pass for each n in the order 5, 4, 3, 2,
\* each on the output of the pass before.
C22_DecreasingOrder ==
    (Len(out) = 1 /\ out[1].op = "stage") => out[1].text = Passes5432(arg.text)

\* C22, the order is observable: the stage ran on a text for which the
\* passes in the order 2, 3, 4, 5 give another text.
C22_Witness ==
    /\ Len(out) = 1
    /\ out[1].op = "stage"
    /\ Passes2345(arg.text) # out[1].text

\* The first sequence is a subsequence of the second.
RECURSIVE IsSubsequence(_, _)
IsSubsequence(xs, ys) ==
    IF xs = <<>> THEN TRUE
    ELSE IF ys = <<>> THEN FALSE
    ELSE IF Head(xs) = Head(ys) THEN IsSubsequence(Tail(xs), Tail(ys))
    ELSE IsSubsequence(xs, Tail(ys))

\* The distinct lower-cased words of a sequence of words.
LowerWords(ws) == {ToLowerCase(ws[k]) : k \in 1..Len(ws)}

\* C26: a pass returns a subsequence of its words and never deletes the
\* leftmost occurrence of a word, letter case aside; a pass and the whole
\* stage keep the set of distinct lower-cased words and the first word.
C26_WordsPreserved ==
    Len(out) = 1 =>
        /\ IsSubsequence(WordsOut, WordsIn)
        /\ \A p \in out[1].removed :
               \E q \in 1..(p - 1) : ToLowerCase(WordsIn[q]) = ToLowerCase(WordsIn[p])
        /\ LowerWords(WordsOut) = LowerWords(WordsIn)
        /\ WordsOut[1] = WordsIn[1]

\* The stage ran on a text from which it deleted words.
C26_Witness ==
    /\ Len(out) = 1
    /\ out[1].op = "stage"
    /\ Len(WordsOut) < Len(WordsIn)

----------------------------------------------------------------------------
(* The end of parseVTTContent on its own, and cleanTranscript after it:    *)
(* the cue text collected is one line, a text of SentTexts.                *)

InitDedup ==
    /\ InitCalls(NoCalls, {{}})
    /\ NoTab
    /\ \E t \in SentTexts : arg = [text |-> t, id |-> <<>>, shape |-> "cue"]
    /\ out = <<>>

\* Lines 267-273 for textLines = [arg.text].
ParserDedupCall ==
    /\ out = <<>>
    /\ out' = <<[parsed |-> ParseReturnValue(<<arg.text>>),
                 joined |-> JoinedCueText(<<arg.text>>),
                 cleaned |-> <<>>, cleanedJoined |-> <<>>]>>
    /\ UNCHANGED <<callVars, arg, summaryVars>>

\* cleanTranscript on what the parser returned, and on the joined cue text
\* handed over without the parser's sentence pass.
CleanParsed ==
    /\ Len(out) = 1
    /\ out' = Append(out, [out[1] EXCEPT !.cleaned = cleanTranscript(out[1].parsed),
                                         !.cleanedJoined = cleanTranscript(out[1].joined)])
    /\ UNCHANGED <<callVars, arg, summaryVars>>

NextDedup == ParserDedupCall \/ CleanParsed

SpecDedup == InitDedup /\ [][NextDedup]_vars

\* A sequence of sentences joined with ". " and, if there is any, closed
\* with a period.
JoinedWithPeriod(sentences) ==
    Join(sentences, <<".", " ">>) \o (IF sentences # <<>> THEN <<".">> ELSE <<>>)

\* C23 as stated: of the sentences of the joined cue text that are equal
\* after trimming and lower-casing the parser keeps only the first, in
\* order, joined with ". " and closed with one period.
C23_ParserDedupFolded ==
    Len(out) >= 1 => out[1].parsed = JoinedWithPeriod(FirstOccurrences(arg.text))

\* The first occurrence of each distinct sentence of a text, sentences
\* compared after trimming only.
FirstOccurrencesExact(text) ==
    LET frags == Fragments(text)
        first(i) == \A j \in 1..(i - 1) : Trim(frags[j]) # Trim(frags[i])
        firsts == SelectSeq([i \in 1..Len(frags) |-> i], first)
    IN  [k \in 1..Len(firsts) |-> Trim(frags[firsts[k]])]

\* C23 amended: of the sentences of the joined cue text that are equal
\* after trimming, letter case included, the parser keeps only the first, in
\* order, joined with ". " and closed with one period.
C23_ParserDedupExact ==
    Len(out) >= 1 => out[1].parsed = JoinedWithPeriod(FirstOccurrencesExact(arg.text))

\* The parser's pass ran on a text that repeats a sentence exactly and once
\* more in another letter case.
C23_Witness ==
    /\ Len(out) >= 1
    /\ LET frags == Fragments(arg.text)
       IN  \E i, j, k \in 1..Len(frags) :
               /\ i < j
               /\ Trim(frags[i]) = Trim(frags[j])
               /\ Trim(frags[k]) # Trim(frags[i])
               /\ ToLowerCase(Trim(frags[k])) = ToLowerCase(Trim(frags[i]))

\* C25: cleanTranscript gives the same text for the parser's output as for
\* the joined cue text without the parser's sentence pass.
C25_ParserDedupRedundant == Len(out) = 2 => out[2].cleaned = out[2].cleanedJoined

\* Both were cleaned for a cue text from which the parser's pass had dropped
\* a sentence.
C25_Witness ==
    /\ Len(out) = 2
    /\ Len(Fragments(out[2].parsed)) < Len(Fragments(out[2].joined))
    /\ out[2].cleaned # <<>>

\* C24: every non-blank line lying between a timestamp line and the next
\* blank line is treated as cue text, whatever its content: when its text is
\* not empty after tag stripping and entity decoding it is appended to the
\* collected fragments. (A further timestamp line is left out here: it opens
\* the next cue.)
C24_CueLinesCollected ==
    \A i, j \in LineSteps :
        (/\ i < j
         /\ Includes(out[i].line, LitArrow)
         /\ \A k \in (i + 1)..j : out[k].line # <<>>
         /\ ~Includes(out[j].line, LitArrow)
         /\ CleanCueText(out[j].line) # <<>>) =>
            out[j].textLines = Append(Before(j).textLines, CleanCueText(out[j].line))

----------------------------------------------------------------------------
\* Scratch files that are there before a download starts.

\* The file operations of call c that open a scratch file for parsing.
Reads(c) == {j \in 1..Len(log[c]) : log[c][j].op \in {"read", "readError"}}

\* C27: a single request never parses a scratch file that was at a
\* candidate's path before that candidate's download was started, whether an
\* earlier request or the previous candidate of the same language left it:
\* every file it opens was written by the download of the candidate that
\* opens it, and a candidate whose download produces no file opens none and
\* is not the source of the returned transcript.
C27_NoStaleFileParsed ==
    \A c \in DOMAIN pc :
        /\ \A j \in Reads(c) :
              /\ log[c][j].content.by = c
              /\ log[c][j].content.track = log[c][j].cand
        /\ \A i \in 1..Len(configs) :
              plan[c][i].artifact = "none" =>
                  /\ \A j \in Reads(c) : log[c][j].cand # i
                  /\ result[c].kind = "returned" => result[c].text.track # i

\* The English automatic download failed after writing a file, the English
\* manual one wrote nothing, and a file of an earlier request lay at the
\* Polish path, where the automatic download wrote nothing either: both files
\* were removed unread and the call went on to the last candidate.
C27_Witness ==
    /\ plan[1][1] = [exit |-> "fail", artifact |-> "text"]
    /\ plan[1][2] = [exit |-> "ok", artifact |-> "none"]
    /\ plan[1][3] = [exit |-> "ok", artifact |-> "none"]
    /\ idx[1] = 4
    /\ \E j \in 1..Len(log[1]) :
          /\ log[1][j].op = "unlink"
          /\ log[1][j].cand = 2
          /\ log[1][j].content = [track |-> 1, kind |-> "text", by |-> 1]
    /\ \E j \in 1..Len(log[1]) :
          /\ log[1][j].op = "unlink"
          /\ log[1][j].cand = 3
          /\ log[1][j].content = StaleContent
    /\ Reads(1) = {}

----------------------------------------------------------------------------
\* getTranscript, lines 186-200: the text parsed from a subtitle file is
\* tested for emptiness, cleaned and returned.

\* A test that lets every parsed text through.
HasTranscriptTextAlways(transcriptText) == TRUE

\* if (transcriptText.trim())
HasTranscriptText(transcriptText) == Trim(transcriptText) # <<>>

\* Cue lines made of punctuation only.
PunctTexts == {<<"?">>, <<".", ".", ".">>, <<".", " ", "!">>, <<",", " ", ".">>}

\* Subtitle files of one cue: a timestamp line and a line of cue text.
YieldFiles == {LineTiming \o <<"\n">> \o t : t \in SentTexts \cup PunctTexts}

InitYield ==
    /\ InitCalls(NoCalls, {{}})
    /\ NoTab
    /\ \E f \in YieldFiles : arg = [text |-> f, id |-> <<>>, shape |-> "vtt"]
    /\ out = <<>>

\* const vttContent = readFileSync(...); const transcriptText =
\* parseVTTContent(vttContent)
ReadAndParse ==
    /\ out = <<>>
    /\ out' = <<[op |-> "parse", transcriptText |-> parseVTTContent(arg.text),
                 text |-> <<>>, language |-> <<>>]>>
    /\ UNCHANGED <<callVars, arg, summaryVars>>

\* The return inside the if, for the configuration the loop is at.
ReturnCleaned ==
    /\ Len(out) = 1
    /\ HasTranscriptText(out[1].transcriptText)
    /\ \E i \in DOMAIN configs :
          out' = Append(out, [op |-> "return",
                              transcriptText |-> out[1].transcriptText,
                              text |-> cleanTranscript(out[1].transcriptText),
                              language |-> configs[i].lang])
    /\ UNCHANGED <<callVars, arg, summaryVars>>

\* The test fails: nothing is returned for this configuration.
SkipEmpty ==
    /\ Len(out) = 1
    /\ ~HasTranscriptText(out[1].transcriptText)
    /\ out' = Append(out, [op |-> "skip", transcriptText |-> out[1].transcriptText,
                           text |-> <<>>, language |-> <<>>])
    /\ UNCHANGED <<callVars, arg, summaryVars>>

NextYield == ReadAndParse \/ ReturnCleaned \/ SkipEmpty

SpecYield == InitYield /\ [][NextYield]_vars

\* C28: whenever getTranscript returns, the returned text is not empty after
\* trimming and the returned language is "en" or "pl", although the
\* emptiness test is made on the parsed text, before cleanTranscript runs.
C28_ReturnedTextNonEmpty ==
    \A k \in 1..Len(out) :
        out[k].op = "return" =>
            /\ Trim(out[k].text) # <<>>
            /\ out[k].language \in {LangEn, LangPl}

\* A return in Polish whose cleaning made the parsed text shorter.
C28_Witness ==
    /\ Len(out) = 2
    /\ out[2].op = "return"
    /\ out[2].language = LangPl
    /\ Len(out[2].text) < Len(out[2].transcriptText)

----------------------------------------------------------------------------
\* The fetchTranscript mutation: validateYtDlp, then getVideoInfo and
\* getTranscript side by side, then the record is created.

YtDlpMissingMessage == "yt-dlp is not installed or not available in PATH. Please install yt-dlp to use this feature."

VideoInfoFailedMessage == "Failed to extract video information"

VideoInfoCommandMessage == "Failed to get video info: Command failed"

CreateFailedMessage == "create failed"

\* A combinator that is fulfilled as soon as one of the two promises is.
PromiseAny(a, b) ==
    IF a.kind = "returned" \/ b.kind = "returned" THEN "fulfilled"
    ELSE IF a.kind = "threw" /\ b.kind = "threw" THEN "rejected"
    ELSE "pending"

\* Promise.all of two promises: rejected with the first rejection, fulfilled
\* when both are.
PromiseAll(a, b) ==
    IF a.kind = "threw" \/ b.kind = "threw" THEN "rejected"
    ELSE IF a.kind = "returned" /\ b.kind = "returned" THEN "fulfilled"
    ELSE "pending"

InfoPending == [kind |-> "pending", title |-> "", message |-> ""]

TranscriptPending == [kind |-> "pending", text |-> "", language |-> <<>>, message |-> ""]

\* What getVideoInfo(u) can settle with.
VideoInfoResults(u) ==
    IF extractVideoId(u).threw
    THEN {[kind |-> "threw", title |-> "", message |-> InvalidUrlMessage]}
    ELSE {[kind |-> "returned", title |-> "Title", message |-> ""],
          [kind |-> "threw", title |-> "", message |-> VideoInfoFailedMessage],
          [kind |-> "threw", title |-> "", message |-> VideoInfoCommandMessage]}

\* What getTranscript(u) can settle with.
TranscriptResults(u) ==
    IF extractVideoId(u).threw
    THEN {[kind |-> "threw", text |-> "", language |-> <<>>, message |-> InvalidUrlMessage]}
    ELSE {[kind |-> "returned", text |-> "Text.", language |-> l, message |-> ""] :
              l \in {LangEn, LangPl}}
         \cup {[kind |-> "threw", text |-> "", language |-> <<>>,
                message |-> NoSubtitlesMessage]}

\* A transcript an earlier mutation stored.
StoredTranscript ==
    [id |-> 1, youtubeUrl |-> UrlShort, videoTitle |-> "Earlier",
     transcript |-> "Earlier.", language |-> LangEn]

FetchUrls == {UrlOther, UrlShort, UrlWatch}

InitFetch ==
    /\ InitCalls(NoCalls, {{}})
    /\ \E u \in FetchUrls : arg = [text |-> u, id |-> <<>>, shape |-> "url"]
    /\ out = <<>>
    /\ tab = [clicked |-> FALSE, timer |-> "idle", summary |-> {},
              query |-> "idle", answer |-> {}]
    /\ \E stored \in SUBSET {StoredTranscript} :
          /\ db = stored
          /\ rpc = [pc |-> "validate", valid |-> "pending", info |-> InfoPending,
                    transcript |-> TranscriptPending, outcome |-> "pending",
                    message |-> "", before |-> stored]

\* await validateYtDlp(): false ends the mutation in the catch block, true
\* starts getVideoInfo and getTranscript.
ValidateYtDlp ==
    /\ rpc.pc = "validate"
    /\ \E ok \in BOOLEAN :
          rpc' = IF ok
                 THEN [rpc EXCEPT !.pc = "gather", !.valid = "true"]
                 ELSE [rpc EXCEPT !.pc = "done", !.valid = "false",
                                  !.outcome = "error", !.message = YtDlpMissingMessage]
    /\ UNCHANGED <<callVars, arg, out, db, tab>>

\* The continuation of await Promise.all([...]) once a promise has settled:
\* to the create, to the catch block, or still waiting. A promise that
\* settles after the mutation has ended changes nothing.
AfterSettle(r) ==
    LET all == PromiseAll(r.info, r.transcript)
    IN  IF r.pc # "gather" \/ all = "pending" THEN r
        ELSE IF all = "fulfilled" THEN [r EXCEPT !.pc = "create"]
        ELSE [r EXCEPT !.pc = "done", !.outcome = "error",
                       !.message = IF r.info.kind = "threw" THEN r.info.message
                                   ELSE r.transcript.message]

VideoInfoSettles ==
    /\ rpc.valid = "true"
    /\ rpc.info.kind = "pending"
    /\ \E res \in VideoInfoResults(arg.text) :
          rpc' = AfterSettle([rpc EXCEPT !.info = res])
    /\ UNCHANGED <<callVars, arg, out, db, tab>>

TranscriptSettles ==
    /\ rpc.valid = "true"
    /\ rpc.transcript.kind = "pending"
    /\ \E res \in TranscriptResults(arg.text) :
          rpc' = AfterSettle([rpc EXCEPT !.transcript = res])
    /\ UNCHANGED <<callVars, arg, out, db, tab>>

\* await ctx.db.transcript.create({ data: ... }) and the return.
CreateTranscript ==
    /\ rpc.pc = "create"
    /\ db' = db \cup {[id |-> Cardinality(db) + 1, youtubeUrl |-> arg.text,
                       videoTitle |-> rpc.info.title,
                       transcript |-> rpc.transcript.text,
                       language |-> IF rpc.transcript.language # <<>>
                                    THEN rpc.transcript.language ELSE LangEn]}
    /\ rpc' = [rpc EXCEPT !.pc = "done", !.outcome = "returned"]
    /\ UNCHANGED <<callVars, arg, out, tab>>

\* The create is rejected by the database: the catch block.
CreateFails ==
    /\ rpc.pc = "create"
    /\ rpc' = [rpc EXCEPT !.pc = "done", !.outcome = "error",
                          !.message = CreateFailedMessage]
    /\ UNCHANGED <<callVars, arg, out, db, tab>>

NextFetch ==
    \/ ValidateYtDlp
    \/ VideoInfoSettles
    \/ TranscriptSettles
    \/ CreateTranscript
    \/ CreateFails

SpecFetch == InitFetch /\ [][NextFetch]_vars

\* C29: the mutation creates a transcript record only after validateYtDlp
\* returned true and both getVideoInfo and getTranscript completed
\* successfully; if any of the three fails, the mutation ends in an error
\* and the set of stored transcripts is as it was.
C29_CreateOnlyAfterAll ==
    /\ db # rpc.before =>
          /\ rpc.valid = "true"
          /\ rpc.info.kind = "returned"
          /\ rpc.transcript.kind = "returned"
    /\ (rpc.valid = "false" \/ rpc.info.kind = "threw" \/ rpc.transcript.kind = "threw") =>
          /\ rpc.pc = "done"
          /\ rpc.outcome = "error"
          /\ db = rpc.before

\* getVideoInfo failed, the mutation ended, and getTranscript succeeded
\* afterwards: the stored transcript of the earlier mutation is all there is.
C29_Witness ==
    /\ rpc.pc = "done"
    /\ rpc.info.kind = "threw"
    /\ rpc.message = VideoInfoFailedMessage
    /\ rpc.transcript.kind = "returned"
    /\ db = {StoredTranscript}

----------------------------------------------------------------------------
\* chunkTranscript: a long transcript is split into chunks of whole sentences.

\* let currentChunk = ""; const chunks = []
ChunkStart == [currentChunk |-> <<>>, chunks |-> <<>>]

\* The loop body for one sentence.
ChunkSentence(st, sentence, maxChunkSize) ==
    LET sentenceWithPunctuation == Trim(sentence) \o <<".">>
    IN  IF Len(st.currentChunk \o sentenceWithPunctuation) > maxChunkSize
        THEN IF st.currentChunk # <<>>
             THEN [chunks |-> Append(st.chunks, Trim(st.currentChunk)),
                   currentChunk |-> sentenceWithPunctuation]
             ELSE [st EXCEPT !.chunks = Append(@, sentenceWithPunctuation)]
        ELSE [st EXCEPT !.currentChunk =
                  @ \o (IF @ # <<>> THEN <<" ">> ELSE <<>>) \o sentenceWithPunctuation]

\* The loop over the first k sentences.
RECURSIVE ChunkLoop(_, _, _)
ChunkLoop(sentences, k, maxChunkSize) ==
    IF k = 0 THEN ChunkStart
    ELSE ChunkSentence(ChunkLoop(sentences, k - 1, maxChunkSize), sentences[k], maxChunkSize)

\* if (currentChunk) chunks.push(currentChunk.trim()); return chunks
ChunkFinish(st) ==
    IF st.currentChunk # <<>> THEN Append(st.chunks, Trim(st.currentChunk)) ELSE st.chunks

chunkTranscript(transcript, maxChunkSize) ==
    IF Len(transcript) <= maxChunkSize THEN <<transcript>>
    ELSE LET sentences == NonBlank(SplitRuns(transcript, SentenceEnd))
         IN  ChunkFinish(ChunkLoop(sentences, Len(sentences), maxChunkSize))

MaxChunkWords == 4

MaxChunkSize == 6

ChunkSizes == 2..MaxChunkSize

ChunkWords == {<<"a">>, <<"b", "b">>}

ChunkSeparators == {<<" ">>, <<".", " ">>, <<"?", " ">>}

ChunkItems == {w \o sp : w \in ChunkWords, sp \in ChunkSeparators}

ChunkTexts ==
    {Flatten(items) : items \in UNION {[1..n -> ChunkItems] : n \in 0..MaxChunkWords}}

InitChunk ==
    /\ InitCalls(NoCalls, {{}})
    /\ NoTab
    /\ \E t \in ChunkTexts : arg = [text |-> t, id |-> <<>>, shape |-> "transcript"]
    /\ out = <<>>

ChunkCall ==
    /\ out = <<>>
    /\ \E m \in ChunkSizes :
          out' = <<[maxChunkSize |-> m, chunks |-> chunkTranscript(arg.text, m)]>>
    /\ UNCHANGED <<callVars, arg, summaryVars>>

NextChunk == ChunkCall

SpecChunk == InitChunk /\ [][NextChunk]_vars

\* The number of sentences a chunk holds.
SentenceCount(chunk) == Len(NonBlank(SplitRuns(chunk, SentenceEnd)))

\* C30: chunkTranscript(t, max) returns the single chunk t when t.length <=
\* max, and otherwise every returned chunk that holds two or more sentences
\* has length <= max.
C30_ChunkWithinMax ==
    Len(out) >= 1 =>
        LET max == out[1].maxChunkSize
            chunks == out[1].chunks
        IN  IF Len(arg.text) <= max
            THEN chunks = <<arg.text>>
            ELSE \A k \in 1..Len(chunks) :
                     SentenceCount(chunks[k]) >= 2 => Len(chunks[k]) <= max

====
